---- MODULE Spec2Model ----
(***************************************************************************)
(* Model of 21cm_analysis.py: the parameter-sensitivity script that sweeps *)
(* the mean 21cm brightness temperature over a redshift grid for the       *)
(* standard model and for variations of hubble, matter and baryon, then    *)
(* plots six panels and prints a summary at the final redshift.            *)
(*                                                                         *)
(* Numbers are numpy float64 values, modelled as exact rationals extended  *)
(* with nan, +inf and -inf (rounding and the sign of zero are not          *)
(* modelled).  The simulation T_b is an external, deterministic library:   *)
(* its behaviour is the variable stub, fixed at start-up.                  *)
(***************************************************************************)
EXTENDS Integers, Sequences, FiniteSets, TLC

\* ---------------------------------------------------------------- bounds
\* number of redshift points (30 in the script) and of cells in a field
NZ == 3
MaxCells == 2

\* ------------------------------------------------------- float64 numbers
Abs(a) == IF a < 0 THEN 0 - a ELSE a

RECURSIVE GCD(_, _)
GCD(a, b) == IF b = 0 THEN a ELSE GCD(b, a % b)

\* the finite number n/d, d # 0, in lowest terms with a positive denominator
Fin(n, d) ==
    LET g == GCD(Abs(n), Abs(d))
        s == IF d < 0 THEN 0 - 1 ELSE 1
    IN  [k |-> "fin", n |-> (s * n) \div g, d |-> (s * d) \div g]

NaN == [k |-> "nan", n |-> 0, d |-> 1]
PInf == [k |-> "inf", n |-> 1, d |-> 1]
NInf == [k |-> "inf", n |-> 0 - 1, d |-> 1]
Zero == Fin(0, 1)

IsNaN(x) == x.k = "nan"
IsInf(x) == x.k = "inf"
IsFinite(x) == x.k = "fin"
Sign(x) == IF x.n > 0 THEN 1 ELSE IF x.n < 0 THEN 0 - 1 ELSE 0
Signed(s) == IF s > 0 THEN PInf ELSE NInf

Add(x, y) ==
    IF IsNaN(x) \/ IsNaN(y) THEN NaN
    ELSE IF IsInf(x) /\ IsInf(y) THEN (IF x = y THEN x ELSE NaN)
    ELSE IF IsInf(x) THEN x
    ELSE IF IsInf(y) THEN y
    ELSE Fin(x.n * y.d + y.n * x.d, x.d * y.d)

Neg(x) == IF IsNaN(x) THEN NaN ELSE [x EXCEPT !.n = 0 - x.n]

Sub(x, y) == Add(x, Neg(y))

Mul(x, y) ==
    IF IsNaN(x) \/ IsNaN(y) THEN NaN
    ELSE IF IsInf(x) \/ IsInf(y)
         THEN (IF Sign(x) * Sign(y) = 0 THEN NaN ELSE Signed(Sign(x) * Sign(y)))
    ELSE Fin(x.n * y.n, x.d * y.d)

\* float64 true division: a zero divisor gives nan or an infinity, no error
Div(x, y) ==
    IF IsNaN(x) \/ IsNaN(y) THEN NaN
    ELSE IF IsInf(y) THEN (IF IsInf(x) THEN NaN ELSE Zero)
    ELSE IF Sign(y) = 0 THEN (IF Sign(x) = 0 THEN NaN ELSE Signed(Sign(x)))
    ELSE IF IsInf(x) THEN Signed(Sign(x) * Sign(y))
    ELSE Fin(x.n * y.d, x.d * y.n)

RECURSIVE SumSeq(_)
SumSeq(s) == IF s = <<>> THEN Zero ELSE Add(s[1], SumSeq(Tail(s)))

\* np.mean: the sum over the number of elements; nan for an empty field
np_mean(a) == Div(SumSeq(a), Fin(Len(a), 1))

\* elementwise array arithmetic of equal-length arrays, and array-by-scalar
ArrSub(a, b) == [j \in 1..Len(a) |-> Sub(a[j], b[j])]
ArrDiv(a, b) == [j \in 1..Len(a) |-> Div(a[j], b[j])]
ArrScale(a, c) == [j \in 1..Len(a) |-> Mul(a[j], c)]

Last(s) == s[Len(s)]

\* ------------------------------------------------------- configuration
ZStart == 30
ZStop == 5

\* np.linspace(start, stop, num)
linspace(start, stop, num) ==
    LET step == Div(Fin(stop - start, 1), Fin(num - 1, 1))
    IN  [j \in 1..num |-> Add(Fin(start, 1), Mul(Fin(j - 1, 1), step))]

std_params0 == [hubble |-> Fin(69, 100), matter |-> Fin(31, 100), baryon |-> Fin(2, 100)]
hubble_variations0 == <<Fin(67, 100), Fin(69, 100), Fin(71, 100)>>
matter_variations0 == <<Fin(29, 100), Fin(31, 100), Fin(33, 100)>>
baryon_variations0 == <<Fin(18, 1000), Fin(2, 100), Fin(22, 1000)>>

colors_h == <<"blue", "black", "red">>
colors_m == <<"green", "black", "purple">>
colors_b == <<"orange", "black", "brown">>

SeqRange(s) == {s[j] : j \in 1..Len(s)}

\* ------------------------------------------------- the external T_b stub
\* Every argument tuple the script can pass to T_b.
ParamSets ==
    {[std_params0 EXCEPT !.hubble = h] : h \in SeqRange(hubble_variations0)} \cup
    {[std_params0 EXCEPT !.matter = m] : m \in SeqRange(matter_variations0)} \cup
    {[std_params0 EXCEPT !.baryon = b] : b \in SeqRange(baryon_variations0)}

CallArgs(redshift, hubble, matter, baryon) ==
    [redshift |-> redshift, hubble |-> hubble, matter |-> matter, baryon |-> baryon]

ArgSpace ==
    {CallArgs(zr, p.hubble, p.matter, p.baryon) :
        zr \in SeqRange(linspace(ZStart, ZStop, NZ)), p \in ParamSets}

\* A stub is an affine brightness model sampled on 'cells' cells, with at
\* most one argument tuple at which it misbehaves: it raises, or returns an
\* empty field, or a field holding nan or inf.
NoBad == [on |-> FALSE, at |-> CallArgs(Zero, Zero, Zero, Zero), kind |-> "none"]

BadSet ==
    {NoBad} \cup
    {[on |-> TRUE, at |-> a, kind |-> kd] :
        a \in ArgSpace, kd \in {"raise", "empty", "nan", "inf"}}

AffineSet == [c0 : {0 - ZStop, 0, 10}, cz : {0, 1}, sens : {0, 1}, cells : 1..MaxCells]

\* every well-behaved affine stub, and one affine form with every bad point
StubSet ==
    {[c0 |-> f.c0, cz |-> f.cz, sens |-> f.sens, cells |-> f.cells, bad |-> bd] :
        f \in AffineSet, bd \in {NoBad}} \cup
    {[c0 |-> f.c0, cz |-> f.cz, sens |-> f.sens, cells |-> f.cells, bad |-> bd] :
        f \in {g \in AffineSet : g.c0 = 10 /\ g.cz = 1 /\ g.sens = 1}, bd \in BadSet}

\* c0 + cz*z + sens*(100*hubble + 200*matter + 3000*baryon - 191)
StubValue(s, a) ==
    Add(Fin(s.c0 - 191 * s.sens, 1),
        Add(Mul(Fin(s.cz, 1), a.redshift),
            Mul(Fin(s.sens, 1),
                Add(Mul(Fin(100, 1), a.hubble),
                    Add(Mul(Fin(200, 1), a.matter), Mul(Fin(3000, 1), a.baryon))))))

StubField(s, a) ==
    LET good == [j \in 1..s.cells |-> Add(StubValue(s, a), Fin(j - 1, 1))]
    IN  IF s.bad.on /\ s.bad.at = a
        THEN CASE s.bad.kind = "empty" -> <<>>
               [] s.bad.kind = "nan" -> [good EXCEPT ![1] = NaN]
               [] s.bad.kind = "inf" -> [good EXCEPT ![1] = PInf]
               [] OTHER -> good
        ELSE good

\* T_b(box=50, redshift=..., hubble=..., matter=..., baryon=...):
\* either raises, or returns an object with its brightness_temp field
T_b(s, a) ==
    [raised |-> s.bad.on /\ s.bad.at = a /\ s.bad.kind = "raise",
     brightness_temp |-> StubField(s, a)]

\* calculate_mean_temperature: the mean of the field T_b returns; an
\* exception of T_b propagates
calculate_mean_temperature(s, redshift, hubble, matter, baryon) ==
    LET bt == T_b(s, CallArgs(redshift, hubble, matter, baryon))
    IN  [raised |-> bt.raised, value |-> np_mean(bt.brightness_temp)]

\* ----------------------------------------------------------------- state
VARIABLES
    stub,               \* behaviour of the external T_b
    z, std_params, hubble_variations, matter_variations, baryon_variations,
    Tb_std, Tb_hubble, Tb_matter, Tb_baryon,
    parameters, values, colors,     \* the lists of the z=5 bar chart
    diff,               \* the last percentage difference computed
    plots,              \* the lines and bars drawn so far
    summary,            \* the summary lines printed so far
    calls,              \* the T_b calls issued so far, in order
    pc, k, i,           \* position: section, index of the axis value, index in z
    error               \* the uncaught exception that ended the script

config == <<z, std_params, hubble_variations, matter_variations, baryon_variations>>
series == <<Tb_std, Tb_hubble, Tb_matter, Tb_baryon>>
report == <<parameters, values, colors, diff, plots, summary>>
vars == <<stub, config, series, report, calls, pc, k, i, error>>

\* the values of the name diff: not yet assigned, an array, a scalar
NoDiff == [kind |-> "unset", val |-> <<>>]
ArrayDiff(d) == [kind |-> "array", val |-> d]
ScalarDiff(d) == [kind |-> "scalar", val |-> <<d>>]

EmptyDict == [x \in {} |-> <<>>]

Init ==
    /\ stub \in StubSet
    /\ z = linspace(ZStart, ZStop, NZ)
    /\ std_params = std_params0
    /\ hubble_variations = hubble_variations0
    /\ matter_variations = matter_variations0
    /\ baryon_variations = baryon_variations0
    /\ Tb_std = <<>>
    /\ Tb_hubble = EmptyDict
    /\ Tb_matter = EmptyDict
    /\ Tb_baryon = EmptyDict
    /\ parameters = <<>>
    /\ values = <<>>
    /\ colors = <<>>
    /\ diff = NoDiff
    /\ plots = <<>>
    /\ summary = <<>>
    /\ calls = <<>>
    /\ pc = "std"
    /\ k = 1
    /\ i = 1
    /\ error = "none"

\* d[key] = val on a Python dict
Put(d, key, val) == [x \in DOMAIN d \cup {key} |-> IF x = key THEN val ELSE d[x]]

\* ----------------------------------------------------------- the sweeps
\* the arguments each sweep passes to calculate_mean_temperature
StdArgs(redshift) ==
    CallArgs(redshift, std_params.hubble, std_params.matter, std_params.baryon)
HubbleArgs(redshift, h) ==
    CallArgs(redshift, h, std_params.matter, std_params.baryon)
\* variant: the swept matter value lands in the hubble argument
MatterArgs_AsHubble(redshift, m) ==
    CallArgs(redshift, m, std_params.matter, std_params.baryon)
MatterArgs(redshift, m) ==
    CallArgs(redshift, std_params.hubble, m, std_params.baryon)
BaryonArgs(redshift, b) ==
    CallArgs(redshift, std_params.hubble, std_params.matter, b)

Mean(a) == calculate_mean_temperature(stub, a.redshift, a.hubble, a.matter, a.baryon)

\* an uncaught exception ends the script where it is
Crash(kind) == error' = kind /\ UNCHANGED pc

\* one entry of the call log: the loop that called, the axis value it was
\* sweeping (the standard loop has none) and the arguments passed
Call(site, v, a) == [site |-> site, v |-> v, a |-> a]

\* One pass of the body of 'for i, redshift in enumerate(z)': the call is
\* issued; if it raises the script ends, else the loop goes on
Evaluate(site, v, a) ==
    /\ error = "none"
    /\ calls' = Append(calls, Call(site, v, a))
    /\ IF Mean(a).raised
       THEN Crash("SimulationError") /\ UNCHANGED i
       ELSE i' = i + 1 /\ UNCHANGED <<pc, error>>

\* variant: lst.insert(0, ...) in place of lst.append(...)
Appended_AtFront(lst, a) == IF Mean(a).raised THEN lst ELSE <<Mean(a).value>> \o lst

\* lst.append(calculate_mean_temperature(...)): nothing is appended when
\* the call raises
Appended(lst, a) == IF Mean(a).raised THEN lst ELSE Append(lst, Mean(a).value)

\* 1. Standard model
StdEval ==
    /\ pc = "std" /\ i <= Len(z)
    /\ Evaluate("std", Zero, StdArgs(z[i]))
    /\ Tb_std' = Appended(Tb_std, StdArgs(z[i]))
    /\ UNCHANGED <<stub, config, Tb_hubble, Tb_matter, Tb_baryon, report, k>>

\* Tb_std = np.array(Tb_std); Tb_hubble = {}
StdDone ==
    /\ pc = "std" /\ i > Len(z)
    /\ pc' = "hubble" /\ k' = 1 /\ i' = 0
    /\ Tb_hubble' = EmptyDict
    /\ UNCHANGED <<stub, config, Tb_std, Tb_matter, Tb_baryon, report, calls, error>>

\* variant: the sweep skips the standard value as the plots do
BeginValue_SkipStd(name, variations, Tb, TbNext) ==
    /\ pc = name /\ k <= Len(variations) /\ i = 0
    /\ IF variations[k] = std_params[name]
       THEN TbNext = Tb /\ k' = k + 1 /\ i' = 0
       ELSE TbNext = Put(Tb, variations[k], <<>>) /\ i' = 1 /\ UNCHANGED k
    /\ UNCHANGED <<pc, calls, error>>

\* Tb_x[v] = [] for the k-th value of an axis
BeginValue(name, variations, Tb, TbNext) ==
    /\ pc = name /\ k <= Len(variations) /\ i = 0
    /\ TbNext = Put(Tb, variations[k], <<>>)
    /\ i' = 1
    /\ UNCHANGED <<pc, k, calls, error>>

\* Tb_x[v].append(calculate_mean_temperature(...)) for the i-th redshift
EvalValue(name, variations, Tb, TbNext, a) ==
    /\ pc = name /\ k <= Len(variations) /\ i >= 1 /\ i <= Len(z)
    /\ Evaluate(name, variations[k], a)
    /\ TbNext = Put(Tb, variations[k], Appended(Tb[variations[k]], a))
    /\ UNCHANGED k

\* Tb_x[v] = np.array(Tb_x[v]); on to the next value
EndValue(name, variations) ==
    /\ pc = name /\ k <= Len(variations) /\ i > Len(z)
    /\ k' = k + 1 /\ i' = 0
    /\ UNCHANGED <<pc, calls, error>>

\* the loop over the values of an axis is exhausted
EndAxis(name, variations, nextpc) ==
    /\ pc = name /\ k > Len(variations)
    /\ pc' = nextpc /\ k' = 1 /\ i' = 0
    /\ UNCHANGED <<calls, error>>

\* 2. Hubble parameter variations
HubbleBegin ==
    /\ BeginValue("hubble", hubble_variations, Tb_hubble, Tb_hubble')
    /\ UNCHANGED <<stub, config, Tb_std, Tb_matter, Tb_baryon, report>>

\* variant: the redshifts are taken from the end of the grid
HubbleEval_Reversed ==
    /\ i \in 1..Len(z) /\ k \in 1..Len(hubble_variations)
    /\ EvalValue("hubble", hubble_variations, Tb_hubble, Tb_hubble',
                 HubbleArgs(z[Len(z) + 1 - i], hubble_variations[k]))
    /\ UNCHANGED <<stub, config, Tb_std, Tb_matter, Tb_baryon, report>>

HubbleEval ==
    /\ i \in 1..Len(z) /\ k \in 1..Len(hubble_variations)
    /\ EvalValue("hubble", hubble_variations, Tb_hubble, Tb_hubble',
                 HubbleArgs(z[i], hubble_variations[k]))
    /\ UNCHANGED <<stub, config, Tb_std, Tb_matter, Tb_baryon, report>>

HubbleEnd ==
    /\ EndValue("hubble", hubble_variations)
    /\ UNCHANGED <<stub, config, series, report>>

HubbleDone ==
    /\ EndAxis("hubble", hubble_variations, "matter")
    /\ Tb_matter' = EmptyDict
    /\ UNCHANGED <<stub, config, Tb_std, Tb_hubble, Tb_baryon, report>>

\* 3. Matter density variations
MatterBegin ==
    /\ BeginValue("matter", matter_variations, Tb_matter, Tb_matter')
    /\ UNCHANGED <<stub, config, Tb_std, Tb_hubble, Tb_baryon, report>>

MatterEval ==
    /\ i \in 1..Len(z) /\ k \in 1..Len(matter_variations)
    /\ EvalValue("matter", matter_variations, Tb_matter, Tb_matter',
                 MatterArgs(z[i], matter_variations[k]))
    /\ UNCHANGED <<stub, config, Tb_std, Tb_hubble, Tb_baryon, report>>

MatterEnd ==
    /\ EndValue("matter", matter_variations)
    /\ UNCHANGED <<stub, config, series, report>>

MatterDone ==
    /\ EndAxis("matter", matter_variations, "baryon")
    /\ Tb_baryon' = EmptyDict
    /\ UNCHANGED <<stub, config, Tb_std, Tb_hubble, Tb_matter, report>>

\* 4. Baryon density variations
BaryonBegin ==
    /\ BeginValue("baryon", baryon_variations, Tb_baryon, Tb_baryon')
    /\ UNCHANGED <<stub, config, Tb_std, Tb_hubble, Tb_matter, report>>

BaryonEval ==
    /\ i \in 1..Len(z) /\ k \in 1..Len(baryon_variations)
    /\ EvalValue("baryon", baryon_variations, Tb_baryon, Tb_baryon',
                 BaryonArgs(z[i], baryon_variations[k]))
    /\ UNCHANGED <<stub, config, Tb_std, Tb_hubble, Tb_matter, report>>

BaryonEnd ==
    /\ EndValue("baryon", baryon_variations)
    /\ UNCHANGED <<stub, config, series, report>>

BaryonDone ==
    /\ EndAxis("baryon", baryon_variations, "ax1")
    /\ UNCHANGED <<stub, config, series, report>>

\* ------------------------------------------------------------- the plots
Min(a, b) == IF a < b THEN a ELSE b

\* an f-string label: its text and the number formatted into it
Label(text, num) == [text |-> text, num |-> num]

\* one drawn line (or bar)
Line(ax, label, color, y) == [ax |-> ax, label |-> label, color |-> color, y |-> y]

\* variant: the difference is taken relative to the varied series
PctDiff_OverSeries(a, b) == ArrScale(ArrDiv(ArrSub(a, b), a), Fin(100, 1))

\* (a - b) / b * 100 on arrays, elementwise, and on scalars
PctDiff(a, b) == ArrScale(ArrDiv(ArrSub(a, b), b), Fin(100, 1))
PctDiffScalar(x, b) == Mul(Div(Sub(x, b), b), Fin(100, 1))

\* variant: the loop without its 'continue'
ZipLoop_NoSkip(name, variations, cols, std, nextpc, body) ==
    /\ pc = name
    /\ IF k <= Min(Len(variations), Len(cols))
       THEN /\ body
            /\ k' = k + 1
            /\ UNCHANGED pc
       ELSE /\ pc' = nextpc /\ k' = 1
            /\ UNCHANGED <<series, report>>
    /\ UNCHANGED <<stub, config, calls, i, error>>

\* 'for x, color in zip(variations, cols): if x == std: continue; body'
\* followed by the statements up to the next loop
ZipLoop(name, variations, cols, std, nextpc, body) ==
    /\ pc = name
    /\ IF k <= Min(Len(variations), Len(cols))
       THEN /\ IF variations[k] = std
               THEN UNCHANGED <<series, report>>
               ELSE body
            /\ k' = k + 1
            /\ UNCHANGED pc
       ELSE /\ pc' = nextpc /\ k' = 1
            /\ UNCHANGED <<series, report>>
    /\ UNCHANGED <<stub, config, calls, i, error>>

\* axN.plot(z, Tb_std, 'k-', label='Standard Model')
PlotStd(name, ax, nextpc) ==
    /\ pc = name
    /\ plots' = Append(plots, Line(ax, Label("Standard Model", Zero), "k", Tb_std))
    /\ pc' = nextpc /\ k' = 1
    /\ UNCHANGED <<stub, config, series, parameters, values, colors, diff, summary,
                   calls, i, error>>

\* axN.plot(z, y, color=color, label=...)
Plot(ax, text, x, color, y) ==
    /\ plots' = Append(plots, Line(ax, Label(text, x), color, y))
    /\ UNCHANGED <<series, parameters, values, colors, diff, summary>>

\* 1. All variations together
Ax1Std == PlotStd("ax1", 1, "ax1_h")

Ax1HubbleBody(h, color) == Plot(1, "h = ", h, color, Tb_hubble[h])
Ax1Hubble ==
    ZipLoop("ax1_h", hubble_variations, colors_h, std_params.hubble, "ax1_m",
            Ax1HubbleBody(hubble_variations[k], colors_h[k]))

Ax1MatterBody(m, color) == Plot(1, "Om = ", m, color, Tb_matter[m])
Ax1Matter ==
    ZipLoop("ax1_m", matter_variations, colors_m, std_params.matter, "ax1_b",
            Ax1MatterBody(matter_variations[k], colors_m[k]))

Ax1BaryonBody(b, color) == Plot(1, "O_b = ", b, color, Tb_baryon[b])
Ax1Baryon ==
    ZipLoop("ax1_b", baryon_variations, colors_b, std_params.baryon, "ax2",
            Ax1BaryonBody(baryon_variations[k], colors_b[k]))

\* 2. Hubble parameter variations
Ax2Std == PlotStd("ax2", 2, "ax2_h")

Ax2HubbleBody(h, color) ==
    /\ diff' = ArrayDiff(PctDiff(Tb_hubble[h], Tb_std))
    /\ plots' = Append(plots, Line(2, Label("h = ", h), color, Tb_hubble[h]))
    /\ UNCHANGED <<series, parameters, values, colors, summary>>
Ax2Hubble ==
    ZipLoop("ax2_h", hubble_variations, colors_h, std_params.hubble, "ax3",
            Ax2HubbleBody(hubble_variations[k], colors_h[k]))

\* 3. Matter density variations
Ax3Std == PlotStd("ax3", 3, "ax3_m")

Ax3MatterBody(m, color) == Plot(3, "Om = ", m, color, Tb_matter[m])
Ax3Matter ==
    ZipLoop("ax3_m", matter_variations, colors_m, std_params.matter, "ax4",
            Ax3MatterBody(matter_variations[k], colors_m[k]))

\* 4. Baryon density variations
Ax4Std == PlotStd("ax4", 4, "ax4_b")

Ax4BaryonBody(b, color) == Plot(4, "O_b = ", b, color, Tb_baryon[b])
Ax4Baryon ==
    ZipLoop("ax4_b", baryon_variations, colors_b, std_params.baryon, "ax5_h",
            Ax4BaryonBody(baryon_variations[k], colors_b[k]))

\* 5. Percentage differences
PlotDiff(text, x, color, d) ==
    /\ diff' = ArrayDiff(d)
    /\ plots' = Append(plots, Line(5, Label(text, x), color, d))
    /\ UNCHANGED <<series, parameters, values, colors, summary>>

\* variant: the difference is computed in place (-=, /=, *=)
Ax5HubbleBody_InPlace(h, color) ==
    /\ Tb_hubble' = Put(Tb_hubble, h, PctDiff(Tb_hubble[h], Tb_std))
    /\ diff' = ArrayDiff(Tb_hubble'[h])
    /\ plots' = Append(plots, Line(5, Label("h = ", h), color, Tb_hubble'[h]))
    /\ UNCHANGED <<Tb_std, Tb_matter, Tb_baryon, parameters, values, colors, summary>>

Ax5HubbleBody(h, color) == PlotDiff("h = ", h, color, PctDiff(Tb_hubble[h], Tb_std))
Ax5Hubble ==
    ZipLoop("ax5_h", hubble_variations, colors_h, std_params.hubble, "ax5_m",
            Ax5HubbleBody(hubble_variations[k], colors_h[k]))

Ax5MatterBody(m, color) == PlotDiff("Om = ", m, color, PctDiff(Tb_matter[m], Tb_std))
Ax5Matter ==
    ZipLoop("ax5_m", matter_variations, colors_m, std_params.matter, "ax5_b",
            Ax5MatterBody(matter_variations[k], colors_m[k]))

Ax5BaryonBody(b, color) == PlotDiff("O_b = ", b, color, PctDiff(Tb_baryon[b], Tb_std))
Ax5Baryon ==
    ZipLoop("ax5_b", baryon_variations, colors_b, std_params.baryon, "ax6",
            Ax5BaryonBody(baryon_variations[k], colors_b[k]))

\* 6. Final redshift comparison (z=5)
Ax6Init ==
    /\ pc = "ax6"
    /\ parameters' = <<Label("Standard", Zero)>>
    /\ values' = <<Last(Tb_std)>>
    /\ colors' = <<"black">>
    /\ pc' = "ax6_h" /\ k' = 1
    /\ UNCHANGED <<stub, config, series, diff, plots, summary, calls, i, error>>

\* parameters.append(label); values.append(Tb_x[v][-1]); colors.append(color)
AddBar(text, x, color, y) ==
    /\ parameters' = Append(parameters, Label(text, x))
    /\ values' = Append(values, Last(y))
    /\ colors' = Append(colors, color)
    /\ UNCHANGED <<series, diff, plots, summary>>

Ax6HubbleBody(h, color) == AddBar("h=", h, color, Tb_hubble[h])
Ax6Hubble ==
    ZipLoop("ax6_h", hubble_variations, colors_h, std_params.hubble, "ax6_m",
            Ax6HubbleBody(hubble_variations[k], colors_h[k]))

Ax6MatterBody(m, color) == AddBar("Om=", m, color, Tb_matter[m])
Ax6Matter ==
    ZipLoop("ax6_m", matter_variations, colors_m, std_params.matter, "ax6_b",
            Ax6MatterBody(matter_variations[k], colors_m[k]))

Ax6BaryonBody(b, color) == AddBar("O_b=", b, color, Tb_baryon[b])
Ax6Baryon ==
    ZipLoop("ax6_b", baryon_variations, colors_b, std_params.baryon, "ax6_bar",
            Ax6BaryonBody(baryon_variations[k], colors_b[k]))

\* ax6.bar(x_pos, values, color=colors) with the tick labels parameters
Ax6Bar ==
    /\ pc = "ax6_bar"
    /\ plots' = plots \o [j \in 1..Len(parameters) |->
                              Line(6, parameters[j], colors[j], <<values[j]>>)]
    /\ pc' = "sum" /\ k' = 1
    /\ UNCHANGED <<stub, config, series, parameters, values, colors, diff, summary,
                   calls, i, error>>

\* ----------------------------------------------------------- the summary
\* one printed line: label, brightness temperature, percentage difference
SummaryLine(text, x, val, d) == [label |-> Label(text, x), value |-> val, delta |-> d]

\* print(f"Standard Model: {Tb_std[-1]:.2f} mK")
SumStd ==
    /\ pc = "sum"
    /\ summary' = Append(summary, SummaryLine("Standard Model", Zero, Last(Tb_std), NoDiff))
    /\ pc' = "sum_h" /\ k' = 1
    /\ UNCHANGED <<stub, config, series, parameters, values, colors, diff, plots,
                   calls, i, error>>

\* 'for x in variations: if x != std: diff = ...; print(...)'
ForLoop(name, variations, std, nextpc, body) ==
    /\ pc = name
    /\ IF k <= Len(variations)
       THEN /\ IF variations[k] # std
               THEN body
               ELSE UNCHANGED <<series, report>>
            /\ k' = k + 1
            /\ UNCHANGED pc
       ELSE /\ pc' = nextpc /\ k' = 1
            /\ UNCHANGED <<series, report>>
    /\ UNCHANGED <<stub, config, calls, i, error>>

PrintDiff(text, x, y) ==
    /\ diff' = ScalarDiff(PctDiffScalar(Last(y), Last(Tb_std)))
    /\ summary' = Append(summary, SummaryLine(text, x, Last(y), diff'))
    /\ UNCHANGED <<series, parameters, values, colors, plots>>

SumHubbleBody(h) == PrintDiff("h=", h, Tb_hubble[h])
SumHubble ==
    ForLoop("sum_h", hubble_variations, std_params.hubble, "sum_m",
            SumHubbleBody(hubble_variations[k]))

SumMatterBody(m) == PrintDiff("Om=", m, Tb_matter[m])
SumMatter ==
    ForLoop("sum_m", matter_variations, std_params.matter, "sum_b",
            SumMatterBody(matter_variations[k]))

SumBaryonBody(b) == PrintDiff("O_b=", b, Tb_baryon[b])
SumBaryon ==
    ForLoop("sum_b", baryon_variations, std_params.baryon, "done",
            SumBaryonBody(baryon_variations[k]))

Sweep ==
    \/ StdEval \/ StdDone
    \/ HubbleBegin \/ HubbleEval \/ HubbleEnd \/ HubbleDone
    \/ MatterBegin \/ MatterEval \/ MatterEnd \/ MatterDone
    \/ BaryonBegin \/ BaryonEval \/ BaryonEnd \/ BaryonDone

Plots ==
    \/ Ax1Std \/ Ax1Hubble \/ Ax1Matter \/ Ax1Baryon
    \/ Ax2Std \/ Ax2Hubble
    \/ Ax3Std \/ Ax3Matter
    \/ Ax4Std \/ Ax4Baryon
    \/ Ax5Hubble \/ Ax5Matter \/ Ax5Baryon
    \/ Ax6Init \/ Ax6Hubble \/ Ax6Matter \/ Ax6Baryon \/ Ax6Bar

Summary == SumStd \/ SumHubble \/ SumMatter \/ SumBaryon

Next == Sweep \/ Plots \/ Summary

Spec == Init /\ [][Next]_vars

\* ============================================================ properties
Hundred == Fin(100, 1)
Ten == Fin(10, 1)
Twelve == Fin(12, 1)
Twenty == Fin(20, 1)

AxisNames == <<"hubble", "matter", "baryon">>
PhaseNo ==
    CASE pc = "std" -> 0 [] pc = "hubble" -> 1 [] pc = "matter" -> 2
      [] pc = "baryon" -> 3 [] OTHER -> 4
Reporting == PhaseNo = 4

TbOf(ax) == CASE ax = 1 -> Tb_hubble [] ax = 2 -> Tb_matter [] OTHER -> Tb_baryon
ValuesOf(ax) ==
    CASE ax = 1 -> hubble_variations0 [] ax = 2 -> matter_variations0
      [] OTHER -> baryon_variations0
StdOf(ax) ==
    CASE ax = 1 -> std_params0.hubble [] ax = 2 -> std_params0.matter
      [] OTHER -> std_params0.baryon
ColorsOf(ax) == CASE ax = 1 -> colors_h [] ax = 2 -> colors_m [] OTHER -> colors_b

\* the sweep of the n-th value of axis ax has run to its end
Completed(ax, n) ==
    \/ PhaseNo > ax
    \/ PhaseNo = ax /\ (k > n \/ (k = n /\ i > Len(z)))
StdCompleted == PhaseNo > 0 \/ i > Len(z)

\* position of a series in the order of the sweeps: 0 is the standard one
SeriesNo(ax, n) == (ax - 1) * 3 + n

\* the series s is the outcome of the calls number*NZ+1 .. number*NZ+NZ
AlignedWithGrid(s, number) ==
    /\ Len(s) = Len(z)
    /\ \A j \in 1..Len(z) :
          LET c == calls[number * Len(z) + j]
          IN  /\ c.a.redshift = z[j]
              /\ s[j] = np_mean(T_b(stub, c.a).brightness_temp)

\* C1: every series of a completed sweep has one element per redshift of the
\* grid, and its element at index j is the mean of the field returned by the
\* call made with redshift z[j]; so all series align with the standard one.
C1_SeriesAlignedWithGrid ==
    /\ StdCompleted => AlignedWithGrid(Tb_std, 0)
    /\ \A ax \in 1..3, n \in 1..3 :
          Completed(ax, n) =>
              /\ AlignedWithGrid(TbOf(ax)[ValuesOf(ax)[n]], SeriesNo(ax, n))
              /\ Len(TbOf(ax)[ValuesOf(ax)[n]]) = Len(Tb_std)

C1_Witness ==
    /\ pc = "done"
    /\ Tb_std[1] # Tb_std[2]
    /\ Tb_hubble[hubble_variations[1]][Len(z)] # Tb_std[Len(z)]

\* C2: a call of the hubble sweep passes the swept h with the standard matter
\* and baryon, a call of the matter sweep the swept m with the standard
\* hubble and baryon, a call of the baryon sweep the swept b with the
\* standard hubble and matter; std_params is never modified.
C2_OnlyOwnFieldOverridden ==
    /\ std_params = std_params0
    /\ \A n \in 1..Len(calls) :
          LET c == calls[n]
          IN  /\ c.site = "hubble" =>
                    c.a = CallArgs(c.a.redshift, c.v, std_params0.matter, std_params0.baryon)
              /\ c.site = "matter" =>
                    c.a = CallArgs(c.a.redshift, std_params0.hubble, c.v, std_params0.baryon)
              /\ c.site = "baryon" =>
                    c.a = CallArgs(c.a.redshift, std_params0.hubble, std_params0.matter, c.v)

C2_Witness ==
    /\ pc = "ax1"
    /\ \E n1, n2, n3 \in 1..Len(calls) :
          /\ calls[n1].site = "hubble" /\ calls[n1].v # std_params0.hubble
          /\ calls[n2].site = "matter" /\ calls[n2].v # std_params0.matter
          /\ calls[n3].site = "baryon" /\ calls[n3].v # std_params0.baryon

\* C3: once an axis has been swept its mapping has exactly 3 keys, the
\* standard value among them, and the series under the standard value equals
\* the standard series element for element.
C3_StandardValueSwept ==
    \A ax \in 1..3 :
        PhaseNo > ax =>
            /\ Cardinality(DOMAIN TbOf(ax)) = 3
            /\ StdOf(ax) \in DOMAIN TbOf(ax)
            /\ TbOf(ax)[StdOf(ax)] = Tb_std

C3_Witness ==
    /\ pc = "ax1"
    /\ stub.sens = 1 /\ stub.cz = 1
    /\ Tb_baryon[std_params.baryon] = Tb_std
    /\ Tb_baryon[baryon_variations[1]] # Tb_std

\* C4: when T_b fails, each series present in a result mapping is complete
\* in the state of the failure (the claim for every state, taken at the
\* state it singles out).
C4_NoPartialSeries ==
    error # "none" =>
        \A ax \in 1..3 : \A x \in DOMAIN TbOf(ax) : Len(TbOf(ax)[x]) = Len(z)

\* C5: no percentage difference is ever computed against a standard value
\* that is exactly zero: the array form needs every standard value nonzero,
\* the scalar form of the summary the last one.
C5_ZeroBaselineSignals ==
    /\ diff.kind = "array" => \A j \in 1..Len(Tb_std) : Tb_std[j] # Zero
    /\ diff.kind = "scalar" => Last(Tb_std) # Zero
    /\ (\E j \in 1..Len(Tb_std) : Tb_std[j] = Zero) => \A n \in 1..Len(plots) : plots[n].ax # 5

Ax5Lines == {plots[n] : n \in {m \in 1..Len(plots) : plots[m].ax = 5}}

\* the series a label of panel 5 or of the summary stands for
SeriesOfLabel(l) ==
    CASE l.text \in {"h = ", "h="} -> Tb_hubble[l.num]
      [] l.text \in {"Om = ", "Om="} -> Tb_matter[l.num]
      [] OTHER -> Tb_baryon[l.num]
SameAxis(l1, l2) ==
    /\ l1.num = l2.num
    /\ \E pair \in {<<"h = ", "h=">>, <<"Om = ", "Om=">>, <<"O_b = ", "O_b=">>} :
          l1.text = pair[1] /\ l2.text = pair[2]

\* C6: a plotted deviation d of a series s against the standard series b has
\* the length of s, and wherever b[j] is a finite nonzero number and s[j] is
\* finite, d[j] * b[j] = (s[j] - b[j]) * 100; so it is 0 where s[j] = b[j]
\* and 20 where b[j] = 10 and s[j] = 12.  The deviation printed in the
\* summary is the last element of the plotted one.
C6_Deviation ==
    /\ \A p \in Ax5Lines :
          LET s == SeriesOfLabel(p.label)
          IN  /\ Len(p.y) = Len(s)
              /\ \A j \in 1..Len(s) :
                    (IsFinite(Tb_std[j]) /\ Tb_std[j] # Zero /\ IsFinite(s[j])) =>
                        /\ IsFinite(p.y[j])
                        /\ Mul(p.y[j], Tb_std[j]) = Mul(Sub(s[j], Tb_std[j]), Hundred)
                        /\ s[j] = Tb_std[j] => p.y[j] = Zero
                        /\ (Tb_std[j] = Ten /\ s[j] = Twelve) => p.y[j] = Twenty
    /\ \A n \in 1..Len(summary) :
          summary[n].delta.kind = "scalar" =>
              \E p \in Ax5Lines :
                  /\ SameAxis(p.label, summary[n].label)
                  /\ summary[n].delta.val = <<Last(p.y)>>

C6_Witness ==
    /\ pc = "done"
    /\ \E p \in Ax5Lines : \A j \in 1..Len(z) : Tb_std[j] = Ten /\ p.y[j] = Twenty
    /\ \E n \in 1..Len(summary) : summary[n].delta = ScalarDiff(Twenty)

NonFinite(field) == field = <<>> \/ \E j \in 1..Len(field) : ~IsFinite(field[j])
RECURSIVE TotalLen(_, _)
TotalLen(d, S) ==
    IF S = {} THEN 0
    ELSE LET x == CHOOSE y \in S : TRUE
         IN  Len(d[x]) + TotalLen(d, S \ {x})

\* the number of means appended so far, over all the series
AppendedCount ==
    Len(Tb_std) + TotalLen(Tb_hubble, DOMAIN Tb_hubble)
                + TotalLen(Tb_matter, DOMAIN Tb_matter)
                + TotalLen(Tb_baryon, DOMAIN Tb_baryon)

\* C7: a call whose field is empty or holds a non-finite element ends the
\* script with a ReductionError: it is the last call and nothing was
\* appended for it.
C7_BadFieldRaises ==
    \A n \in 1..Len(calls) :
        NonFinite(T_b(stub, calls[n].a).brightness_temp) /\ ~T_b(stub, calls[n].a).raised =>
            /\ error = "ReductionError"
            /\ n = Len(calls)
            /\ AppendedCount = Len(calls) - 1

\* C8: from the first plot on, no step changes a series, a key set, the
\* redshift grid, std_params or a variation list.
C8_ReportingOnlyReads ==
    [][Reporting => (series' = series /\ config' = config)]_vars

C8_Witness ==
    /\ pc = "done"
    /\ Len(summary) = 7
    /\ Len(plots) > 20
    /\ diff.kind = "scalar"

\* the order in which the script must call T_b
ExpectedSites ==
    [n \in 1..10 * NZ |->
        LET number == (n - 1) \div NZ
            j == ((n - 1) % NZ) + 1
            ax == ((number - 1) \div 3) + 1
            m == ((number - 1) % 3) + 1
        IN  IF number = 0
            THEN [site |-> "std", v |-> Zero, redshift |-> linspace(ZStart, ZStop, NZ)[j]]
            ELSE [site |-> AxisNames[ax], v |-> ValuesOf(ax)[m],
                  redshift |-> linspace(ZStart, ZStop, NZ)[j]]]

\* C9: the calls are issued in one fixed order (standard series, then
\* hubble, matter, baryon; values in list order; redshifts in grid order),
\* every call but a failed one has its mean appended before the next call
\* is issued, and the plots start only after the last call.
C9_SequentialOrder ==
    /\ Len(calls) <= 10 * NZ
    /\ \A n \in 1..Len(calls) :
          /\ calls[n].site = ExpectedSites[n].site
          /\ calls[n].v = ExpectedSites[n].v
          /\ calls[n].a.redshift = ExpectedSites[n].redshift
    /\ AppendedCount = Len(calls) - (IF error = "none" THEN 0 ELSE 1)
    /\ Reporting => Len(calls) = 10 * NZ

C9_Witness ==
    /\ pc = "ax1"
    /\ Len(calls) = 10 * NZ
    /\ plots = <<>>

\* the positions of the values of a list that differ from the standard one
NonStd(ax) == SelectSeq(<<1, 2, 3>>, LAMBDA n : ValuesOf(ax)[n] # StdOf(ax))
BarLabels == <<"h=", "Om=", "O_b=">>
\* the bars of axis ax due once the values at positions below upto are done
ExpectedBars(ax, upto) ==
    LET pos == SelectSeq(NonStd(ax), LAMBDA n : n < upto)
    IN  [n \in 1..Len(pos) |->
            [label |-> Label(BarLabels[ax], ValuesOf(ax)[pos[n]]),
             value |-> Last(TbOf(ax)[ValuesOf(ax)[pos[n]]]),
             color |-> ColorsOf(ax)[pos[n]]]]
BarsSoFar ==
    CASE pc = "ax6_h" -> ExpectedBars(1, k)
      [] pc = "ax6_m" -> ExpectedBars(1, 4) \o ExpectedBars(2, k)
      [] pc = "ax6_b" -> ExpectedBars(1, 4) \o ExpectedBars(2, 4) \o ExpectedBars(3, k)
      [] OTHER -> ExpectedBars(1, 4) \o ExpectedBars(2, 4) \o ExpectedBars(3, 4)

\* C10: the three lists of the bar chart always have equal length and start
\* with the 'Standard' entry holding the last standard value; after it they
\* hold one entry per value passed so far that differs from the standard
\* one, in list order, with the last element of that value's series and the
\* colour at that value's position; 7 entries in the end.
C10_BarLists ==
    /\ Len(parameters) = Len(values) /\ Len(values) = Len(colors)
    /\ Len(parameters) > 0 =>
          /\ parameters[1] = Label("Standard", Zero)
          /\ values[1] = Last(Tb_std)
          /\ colors[1] = "black"
    /\ pc \in {"ax6_h", "ax6_m", "ax6_b", "ax6_bar", "sum", "sum_h", "sum_m", "sum_b", "done"} =>
          /\ Len(parameters) = 1 + Len(BarsSoFar)
          /\ \A n \in 1..Len(BarsSoFar) :
                /\ parameters[n + 1] = BarsSoFar[n].label
                /\ values[n + 1] = BarsSoFar[n].value
                /\ colors[n + 1] = BarsSoFar[n].color
    /\ pc = "done" =>
          /\ Len(parameters) = 7
          /\ colors = <<"black", "blue", "red", "green", "purple", "orange", "brown">>

C10_Witness ==
    /\ pc = "ax6_bar"
    /\ Len(parameters) = 7
    /\ values[2] # values[1]

====
